---- MODULE Spec2Model ----
(***************************************************************************)
(* MuseumLangAPI (src/src/main.py): a FastAPI application that loads a     *)
(* pickled classifier once in its lifespan and serves GET /, POST          *)
(* /identify-language and GET /health.                                     *)
(*                                                                         *)
(* The three handlers are `async def` bodies without any await, so each    *)
(* one runs to completion on the event loop: one action per handler, and   *)
(* concurrent requests are served in an arbitrary order.                   *)
(*                                                                         *)
(* Texts are sequences of characters.  Probabilities and confidences are   *)
(* integers counting thousandths (985 is 0.985).  The classifier is the    *)
(* unpickled object: what its predict / predict_proba calls return or      *)
(* raise is drawn from small sets at every call.                           *)
(***************************************************************************)
EXTENDS Integers, Sequences, FiniteSets

\* Longest request text.
MaxLen == 2
\* Number of requests served in one run of the process.
MaxRequests == 3

\* confidence = 0.9, in thousandths.
DEFAULT_CONFIDENCE == 900

Chars == {" ", "a"}
\* The characters str.strip() removes.
Whitespace == {" "}
Texts == UNION {[1..n -> Chars] : n \in 0..MaxLen}

Labels == {"IT", "en"}

\* Exceptions a classifier call can raise: kind is the class, msg is str(e).
Errors ==
  { [kind |-> "ValueError", msg |-> ""],
    [kind |-> "AttributeError", msg |-> "object has no attribute"],
    [kind |-> "NotImplementedError", msg |-> ""] }
NoError == [kind |-> "", msg |-> ""]

\* First rows a predict_proba call can return (thousandths).
Rows ==
  { <<980, 20>>, <<334, 333, 333>>, <<125, 875>>, <<15, 985>>,
    <<0, 1000>>, <<1500, -500>>, <<1135, -200>>, <<-15>> }

\* The value of the global `model` before the lifespan assigns it.
NoModel == [kind |-> "None", proba |-> "none"]
\* Objects with a predict method: a classifier without predict_proba, one
\* whose predict_proba raises NotImplementedError, one that returns
\* distributions.
Classifiers ==
  { [kind |-> "classifier", proba |-> p] : p \in {"absent", "notimpl", "rows"} }
\* What pickle.load can return: load_model returns it unexamined, so also
\* None or an object without predict (a dict).
Unpickled ==
  Classifiers \cup {NoModel, [kind |-> "object", proba |-> "absent"]}
\* The file at MODEL_PATH: absent, not unpicklable, or any pickled object.
Artifacts ==
  { [exists |-> FALSE, corrupt |-> FALSE, content |-> NoModel],
    [exists |-> TRUE, corrupt |-> TRUE, content |-> NoModel] }
  \cup { [exists |-> TRUE, corrupt |-> FALSE, content |-> c] : c \in Unpickled }

LogLine(level, line) == [level |-> level, line |-> line]

----------------------------------------------------------------------------
\* load_model

\* The try block.
LoadModelTry(art) ==
  IF ~art.exists
  THEN [raised |-> "FileNotFoundError", ret |-> NoModel,
        logs |-> <<LogLine("ERROR", 42)>>]
  ELSE IF art.corrupt
  THEN [raised |-> "UnpicklingError", ret |-> NoModel, logs |-> <<>>]
  ELSE [raised |-> "", ret |-> art.content, logs |-> <<LogLine("INFO", 47)>>]

\* The whole function: `except Exception` also catches the FileNotFoundError
\* raised inside the try block.
load_model(art) ==
  LET t == LoadModelTry(art) IN
  IF t.raised # ""
  THEN [raised |-> "RuntimeError", cause |-> t.raised, ret |-> NoModel,
        logs |-> t.logs \o <<LogLine("ERROR", 50)>>]
  ELSE [raised |-> "", cause |-> "", ret |-> t.ret, logs |-> t.logs]

----------------------------------------------------------------------------
\* str.strip() and the blank test of identify_language

RECURSIVE LStrip(_)
LStrip(s) ==
  IF s = <<>> THEN s
  ELSE IF Head(s) \in Whitespace THEN LStrip(Tail(s)) ELSE s

RECURSIVE RStrip(_)
RStrip(s) ==
  IF s = <<>> THEN s
  ELSE IF s[Len(s)] \in Whitespace THEN RStrip(SubSeq(s, 1, Len(s) - 1)) ELSE s

Strip(s) == RStrip(LStrip(s))

\* Variant: the test without the strip().
IsBlank_NoStrip(text) == Len(text) = 0

\* not request.text or request.text.strip() == ""
IsBlank(text) == Len(text) = 0 \/ Strip(text) = <<>>

----------------------------------------------------------------------------
\* round(confidence, 2) on thousandths

\* The thousandths n in [0, 2] ending in 5 for which round(n/1000, 2) goes up
\* (the double nearest to n/1000 lies above the tie, or the tie is exact and
\* the even neighbour is the upper one).
TiesRoundedUp ==
  { 5, 25, 35, 55, 65, 85, 95, 115, 135, 165, 195, 225, 255, 265, 275, 315,
    325, 335, 375, 385, 395, 405, 445, 455, 465, 505, 515, 525, 535, 545,
    555, 635, 645, 655, 665, 675, 685, 755, 765, 775, 785, 795, 805, 875,
    885, 895, 905, 915, 925, 935, 1135, 1145, 1155, 1165, 1175, 1185, 1195,
    1205, 1215, 1225, 1235, 1245, 1375, 1385, 1395, 1405, 1415, 1425, 1435,
    1445, 1455, 1465, 1475, 1485, 1495, 1635, 1645, 1655, 1665, 1675, 1685,
    1695, 1705, 1715, 1725, 1735, 1745, 1875, 1885, 1895, 1905, 1915, 1925,
    1935, 1945, 1955, 1965, 1975, 1985, 1995 }

\* round(n/1000, 2) for 0 <= n <= 2000.
Round2Abs(n) ==
  IF n % 10 = 5
  THEN IF n \in TiesRoundedUp THEN n + 5 ELSE n - 5
  ELSE ((n + 5) \div 10) * 10

\* Variant: the confidence returned without rounding.
Round2_Identity(x) == x

\* round(x/1000, 2) for -2000 <= x <= 2000: rounding is symmetric about 0.
Round2(x) == IF x < 0 THEN 0 - Round2Abs(0 - x) ELSE Round2Abs(x)

RECURSIVE SeqMax(_)
SeqMax(s) ==
  IF Len(s) = 1 THEN s[1]
  ELSE LET m == SeqMax(Tail(s)) IN IF s[1] >= m THEN s[1] ELSE m

----------------------------------------------------------------------------
\* The classifier

Returned(v) == [called |-> TRUE, ok |-> TRUE, val |-> v, err |-> NoError]
Raised(e) == [called |-> TRUE, ok |-> FALSE, val |-> <<>>, err |-> e]
NotCalled == [called |-> FALSE, ok |-> FALSE, val |-> <<>>, err |-> NoError]

\* model.predict(arg): one label per text, or an exception; None and objects
\* without the method raise AttributeError.
PredictOutcomes(m, arg) ==
  IF m.kind # "classifier"
  THEN {Raised([kind |-> "AttributeError", msg |-> "object has no attribute"])}
  ELSE {Returned(v) : v \in [1..Len(arg) -> Labels]}
       \cup {Raised(e) : e \in Errors}

\* model.predict_proba(arg): one row per text, or an exception.
ProbaOutcomes(m, arg) ==
  IF m.kind # "classifier" \/ m.proba = "absent"
  THEN {Raised([kind |-> "AttributeError", msg |-> "object has no attribute"])}
  ELSE IF m.proba = "notimpl"
  THEN {Raised([kind |-> "NotImplementedError", msg |-> ""])}
  ELSE {Returned(v) : v \in [1..Len(arg) -> Rows]}
       \cup {Raised(e) : e \in Errors}

----------------------------------------------------------------------------
\* identify_language

\* Variant: the classifier is given the stripped text.
text_to_predict_Stripped(text) == <<Strip(text)>>

\* text_to_predict = [request.text]
text_to_predict(text) == <<text>>

Call(method, arg) == [method |-> method, arg |-> arg]

\* Variant: except AttributeError: pass
CaughtByFallback_AttrOnly(kind) == kind = "AttributeError"

\* Variant: except Exception: pass
CaughtByFallback_Any(kind) == TRUE

\* except (AttributeError, NotImplementedError): pass
CaughtByFallback(kind) == kind \in {"AttributeError", "NotImplementedError"}

\* confidence = 0.9, overwritten by float(max(probabilities[0])) unless the
\* inner try is left by one of the two caught exceptions.
Confidence(pr) ==
  IF pr.ok
  THEN IF Len(pr.val) = 0
       THEN [raised |-> TRUE, value |-> 0,
             err |-> [kind |-> "IndexError", msg |-> "index out of range"]]
       ELSE IF Len(pr.val[1]) = 0
       THEN [raised |-> TRUE, value |-> 0,
             err |-> [kind |-> "ValueError", msg |-> "max() arg is an empty sequence"]]
       ELSE [raised |-> FALSE, value |-> SeqMax(pr.val[1]), err |-> NoError]
  ELSE IF CaughtByFallback(pr.err.kind)
  THEN [raised |-> FALSE, value |-> DEFAULT_CONFIDENCE, err |-> NoError]
  ELSE [raised |-> TRUE, value |-> 0, err |-> pr.err]

\* The outer try block; po and pr are what model.predict and
\* model.predict_proba do when they are called with text_to_predict.
TryBody(text, po, pr) ==
  LET arg == text_to_predict(text)
      c1 == <<Call("predict", arg)>>
      c2 == c1 \o <<Call("predict_proba", arg)>>
      conf == Confidence(pr)
  IN  IF ~po.ok
      THEN [raised |-> TRUE, err |-> po.err, calls |-> c1,
            predictOut |-> po, probaOut |-> NotCalled,
            language_code |-> "", confidence |-> 0]
      ELSE IF conf.raised
      THEN [raised |-> TRUE, err |-> conf.err, calls |-> c2,
            predictOut |-> po, probaOut |-> pr,
            language_code |-> "", confidence |-> 0]
      ELSE IF Len(po.val) = 0
      THEN [raised |-> TRUE, calls |-> c2,
            err |-> [kind |-> "IndexError", msg |-> "index out of range"],
            predictOut |-> po, probaOut |-> pr,
            language_code |-> "", confidence |-> 0]
      ELSE [raised |-> FALSE, err |-> NoError, calls |-> c2,
            predictOut |-> po, probaOut |-> pr,
            language_code |-> po.val[1], confidence |-> Round2(conf.value)]

NoResponse ==
  [set |-> FALSE, path |-> "", text |-> <<>>, status |-> 0, language_code |-> "",
   confidence |-> 0, detail |-> <<>>, calls |-> <<>>, predictOut |-> NotCalled,
   probaOut |-> NotCalled, logs |-> <<>>]

\* The handler: the response, the classifier calls made and the lines logged.
identify_language(text, po, pr) ==
  LET base == [NoResponse EXCEPT !.set = TRUE, !.path = "/identify-language",
                                 !.text = text]
      received == <<LogLine("INFO", 99)>>
  IN  IF IsBlank(text)
      THEN [base EXCEPT !.status = 400,
                        !.detail = <<"Il testo non puo essere vuoto">>,
                        !.logs = received \o <<LogLine("WARNING", 104)>>]
      ELSE LET t == TryBody(text, po, pr) IN
           IF t.raised
           THEN [base EXCEPT !.status = 500,
                   !.detail = <<"Errore durante l'identificazione della lingua: ",
                                t.err.msg>>,
                   !.calls = t.calls, !.predictOut = t.predictOut,
                   !.probaOut = t.probaOut,
                   !.logs = received \o <<LogLine("ERROR", 130)>>]
           ELSE [base EXCEPT !.status = 200,
                   !.language_code = t.language_code,
                   !.confidence = t.confidence,
                   !.calls = t.calls, !.predictOut = t.predictOut,
                   !.probaOut = t.probaOut,
                   !.logs = received \o <<LogLine("INFO", 124)>>]

----------------------------------------------------------------------------
\* The process

VARIABLES
  artifact,      \* the file at MODEL_PATH
  phase,         \* "Starting", "Ready", "Aborted", "ShuttingDown"
  model,         \* the global model
  startupError,  \* what load_model raised into the lifespan
  log,           \* the lines appended to the log file
  served,        \* number of requests answered
  failed,        \* number of requests answered with status 500
  last           \* the latest exchange

vars == <<artifact, phase, model, startupError, log, served, failed, last>>

\* Module import: model = None; the lifespan has not run.
Init ==
  /\ artifact \in Artifacts
  /\ phase = "Starting"
  /\ model = NoModel
  /\ startupError = [kind |-> "", cause |-> ""]
  /\ log = <<>>
  /\ served = 0
  /\ failed = 0
  /\ last = NoResponse

\* lifespan up to the yield: an exception of load_model leaves the lifespan
\* before the assignment, and the server does not start; whatever load_model
\* returns is assigned and served with.
Lifespan ==
  /\ phase = "Starting"
  /\ LET r == load_model(artifact) IN
       IF r.raised # ""
       THEN /\ phase' = "Aborted"
            /\ startupError' = [kind |-> r.raised, cause |-> r.cause]
            /\ model' = model
            /\ log' = log \o r.logs
       ELSE /\ phase' = "Ready"
            /\ startupError' = startupError
            /\ model' = r.ret
            /\ log' = log \o r.logs \o <<LogLine("INFO", 58)>>
  /\ UNCHANGED <<artifact, served, failed, last>>

\* lifespan after the yield.
Shutdown ==
  /\ phase = "Ready"
  /\ phase' = "ShuttingDown"
  /\ log' = log \o <<LogLine("INFO", 60)>>
  /\ UNCHANGED <<artifact, model, startupError, served, failed, last>>

\* What every handler does to the state, given its exchange x and the value
\* m the global model has when it returns.
Answer(x, m) ==
  /\ last' = [x EXCEPT !.logs = <<>>]
  /\ log' = log \o x.logs
  /\ served' = served + 1
  /\ failed' = IF x.status = 500 THEN failed + 1 ELSE failed
  /\ model' = m
  /\ UNCHANGED <<artifact, phase, startupError>>

\* Variant: GET / resets the global model.
Root_ClearsModel ==
  /\ phase = "Ready"
  /\ served < MaxRequests
  /\ Answer([NoResponse EXCEPT !.set = TRUE, !.path = "/", !.status = 200], NoModel)

\* GET /
Root ==
  /\ phase = "Ready"
  /\ served < MaxRequests
  /\ Answer([NoResponse EXCEPT !.set = TRUE, !.path = "/", !.status = 200], model)

\* Variant: the except branch drops the model before answering 500.
IdentifyLanguage_DropModel(text) ==
  /\ phase = "Ready"
  /\ served < MaxRequests
  /\ \E po \in PredictOutcomes(model, text_to_predict(text)) :
       \E pr \in ProbaOutcomes(model, text_to_predict(text)) :
         /\ ~po.ok => pr = (CHOOSE p \in ProbaOutcomes(model, text_to_predict(text)) : TRUE)
         /\ LET x == identify_language(text, po, pr) IN
              Answer(x, IF x.status = 500 THEN NoModel ELSE model)

\* POST /identify-language with body {"text": text}
IdentifyLanguage(text) ==
  /\ phase = "Ready"
  /\ served < MaxRequests
  /\ \E po \in PredictOutcomes(model, text_to_predict(text)) :
       \E pr \in ProbaOutcomes(model, text_to_predict(text)) :
         \* predict_proba is reached only after predict has returned: when
         \* predict raises, one outcome stands for all
         /\ ~po.ok => pr = (CHOOSE p \in ProbaOutcomes(model, text_to_predict(text)) : TRUE)
         /\ Answer(identify_language(text, po, pr), model)

\* GET /health
HealthCheck ==
  /\ phase = "Ready"
  /\ served < MaxRequests
  /\ Answer([NoResponse EXCEPT !.set = TRUE, !.path = "/health", !.status = 200],
            model)

Next ==
  \/ Lifespan
  \/ Shutdown
  \/ Root
  \/ \E text \in Texts : IdentifyLanguage(text)
  \/ HealthCheck

Spec == Init /\ [][Next]_vars

----------------------------------------------------------------------------
\* Properties

IsIdentify == last.set /\ last.path = "/identify-language"
AllWhitespace(t) == \A i \in 1..Len(t) : t[i] \in Whitespace
NonBlankIdentify == IsIdentify /\ ~AllWhitespace(last.text)
NonEmptyDetail(d) == \E i \in 1..Len(d) : d[i] # ""
FallbackKinds == {"AttributeError", "NotImplementedError"}
LoadModelLines == {i \in 1..Len(log) : log[i].line \in {42, 47, 50}}

\* C1: a POST /identify-language whose text is empty or only whitespace is
\* answered 400 with a non-empty detail, and neither predict nor
\* predict_proba is called.
C1_BlankTextRejected ==
  (IsIdentify /\ AllWhitespace(last.text)) =>
    /\ last.status = 400
    /\ NonEmptyDetail(last.detail)
    /\ last.calls = <<>>
    /\ ~last.predictOut.called
    /\ ~last.probaOut.called

C1_Witness ==
  IsIdentify /\ last.text = <<" ", " ">> /\ last.status = 400

\* C2: requests are served only after load_model has returned a classifier
\* that the lifespan stored in model; with a missing or undeserializable
\* artifact the server never becomes Ready and nothing is served.
C2_ReadyOnlyAfterLoad ==
  /\ (phase \in {"Ready", "ShuttingDown"} \/ served > 0 \/ last.set) =>
       /\ artifact.exists /\ ~artifact.corrupt
       /\ model.kind = "classifier"
       /\ model = artifact.content
       /\ startupError.kind = ""
  /\ (~artifact.exists \/ artifact.corrupt) =>
       /\ phase \in {"Starting", "Aborted"}
       /\ served = 0
       /\ ~last.set

\* C3 (state part): a non-blank request whose predict call raised is answered
\* 500 with a non-empty detail after exactly one predict call; after any
\* number of such failures the server still holds the loaded model, and a
\* request whose classifier calls succeed is answered 200 with the predicted
\* label.
C3_State ==
  /\ (NonBlankIdentify /\ last.predictOut.called /\ ~last.predictOut.ok) =>
       /\ last.status = 500
       /\ NonEmptyDetail(last.detail)
       /\ last.calls = <<[method |-> "predict", arg |-> <<last.text>>]>>
  /\ failed > 0 =>
       /\ phase \in {"Ready", "ShuttingDown"}
       /\ model = artifact.content
  /\ (failed > 0 /\ NonBlankIdentify /\ last.predictOut.ok /\ last.probaOut.ok) =>
       /\ last.status = 200
       /\ last.language_code = last.predictOut.val[1]

\* C3 (step part): the step that answers 500 answers one request and leaves
\* the model and the lifecycle state as they were.
C3_Step ==
  failed' > failed =>
    /\ model' = model
    /\ phase' = phase
    /\ served' = served + 1
    /\ failed' = failed + 1

\* C3: a predict failure yields 500 with a detail, is not retried, and leaves
\* the server Ready with the same model, so later requests are answered as if
\* it had not happened.
C3_FailureIsIsolated == [](C3_State) /\ [][C3_Step]_vars

C3_Witness ==
  /\ failed >= 2
  /\ NonBlankIdentify /\ last.status = 200 /\ last.probaOut.ok

\* C4: with a classifier whose predict_proba is absent or raises
\* NotImplementedError, a non-blank request whose predict succeeds is answered
\* 200 with confidence 0.9.
C4_FallbackConfidence ==
  (NonBlankIdentify /\ model.proba \in {"absent", "notimpl"} /\ last.predictOut.ok) =>
    /\ last.status = 200
    /\ last.confidence = 900

C4_Witness ==
  /\ NonBlankIdentify /\ model.proba = "notimpl" /\ last.predictOut.ok
  /\ last.status = 200 /\ last.confidence = 900

\* C5 as claimed: every 200 answer carries a confidence in [0, 1] with two
\* decimals, whatever predict_proba returned.
C5_ConfidenceAlwaysInUnitInterval ==
  (NonBlankIdentify /\ last.status = 200) =>
    /\ 0 <= last.confidence /\ last.confidence <= 1000
    /\ last.confidence % 10 = 0

\* C5 amended: every 200 answer carries a confidence with two decimals, and
\* the confidence lies in [0, 1] when every value of the first row that
\* predict_proba returned lies in [0, 1] (or the 0.9 fallback was used).
C5_ConfidenceInUnitIntervalForProbabilities ==
  (NonBlankIdentify /\ last.status = 200) =>
    /\ last.confidence % 10 = 0
    /\ (last.probaOut.ok =>
          \A i \in 1..Len(last.probaOut.val[1]) :
            last.probaOut.val[1][i] \in 0..1000)
       => (0 <= last.confidence /\ last.confidence <= 1000)

C5_Witness ==
  /\ NonBlankIdentify /\ last.status = 200
  /\ last.probaOut.ok /\ last.probaOut.val[1] = <<15, 985>>
  /\ last.confidence = 980

\* C6: when predict and predict_proba both succeed on a non-blank text, the
\* answer is 200, language_code is the first predicted label unchanged,
\* confidence is the largest value of the first row rounded to two decimals,
\* and the calls are predict then predict_proba, once each, on the
\* one-element list holding the untrimmed text.
C6_Passthrough ==
  (NonBlankIdentify /\ last.predictOut.ok /\ last.probaOut.ok) =>
    LET row == last.probaOut.val[1]
        top == CHOOSE v \in {row[i] : i \in 1..Len(row)} :
                 \A j \in 1..Len(row) : row[j] <= v
    IN  /\ last.status = 200
        /\ last.language_code = last.predictOut.val[1]
        /\ last.confidence % 10 = 0
        /\ last.confidence - top <= 5 /\ top - last.confidence <= 5
        /\ last.calls = << [method |-> "predict", arg |-> <<last.text>>],
                           [method |-> "predict_proba", arg |-> <<last.text>>] >>

C6_Witness ==
  /\ IsIdentify /\ last.text = <<" ", "a">> /\ last.status = 200
  /\ last.predictOut.val = <<"en">> /\ last.language_code = "en"
  /\ last.probaOut.ok /\ last.probaOut.val[1] = <<125, 875>>
  /\ last.confidence = 880

\* C7: when startup aborts, a missing artifact is reported as
\* FileNotFoundError and only an existing, undeserializable one as the
\* wrapping RuntimeError.
C7_DistinctLoadErrors ==
  phase = "Aborted" =>
    /\ ~artifact.exists => startupError.kind = "FileNotFoundError"
    /\ startupError.kind = "RuntimeError" => artifact.exists

\* C8: the one call of load_model appends exactly one log line: an INFO line
\* on success, an ERROR line on failure.
C8_OneLogLinePerLoad ==
  phase # "Starting" =>
    /\ Cardinality(LoadModelLines) = 1
    /\ \A i \in LoadModelLines :
         log[i].level = IF phase = "Aborted" THEN "ERROR" ELSE "INFO"

\* C9 (step part): the model is assigned only by the lifespan, once, from its
\* initial None; a step that answers a request leaves it unchanged; and two
\* consecutive POST /identify-language exchanges with the same text and the
\* same classifier results carry the same answer.
C9_Step ==
  /\ model' # model => (phase = "Starting" /\ phase' = "Ready" /\ model = NoModel)
  /\ served' # served => model' = model
  /\ ( /\ IsIdentify /\ last'.set /\ last'.path = "/identify-language"
       /\ last'.text = last.text
       /\ last'.predictOut = last.predictOut
       /\ last'.probaOut = last.probaOut )
     => ( /\ last'.status = last.status
          /\ last'.language_code = last.language_code
          /\ last'.confidence = last.confidence
          /\ last'.detail = last.detail )

\* C9: the shared model is written once at startup and by no request handler,
\* and an answer depends only on the request's text and the classifier.
C9_ModelIsReadOnly == [][C9_Step]_vars

C9_Witness ==
  /\ served >= 3 /\ failed = 1
  /\ model = artifact.content /\ model.kind = "classifier"
  /\ last.path = "/" /\ last.status = 200

\* C10: the 0.9 fallback is used only for AttributeError and
\* NotImplementedError raised by the probability step; any other error there,
\* and any error of predict (those two kinds included), is answered 500 with a
\* non-empty detail.
C10_FallbackOnlyForUnsupported ==
  /\ ( /\ NonBlankIdentify /\ last.predictOut.ok
       /\ last.probaOut.called /\ ~last.probaOut.ok
       /\ last.probaOut.err.kind \notin FallbackKinds )
     => (last.status = 500 /\ NonEmptyDetail(last.detail))
  /\ (NonBlankIdentify /\ last.predictOut.called /\ ~last.predictOut.ok)
     => (last.status = 500 /\ NonEmptyDetail(last.detail))
  /\ (IsIdentify /\ last.status = 200 /\ last.probaOut.called /\ ~last.probaOut.ok)
     => (last.probaOut.err.kind \in FallbackKinds /\ last.confidence = 900)

C10_Witness ==
  /\ NonBlankIdentify /\ last.predictOut.ok
  /\ last.probaOut.called /\ last.probaOut.err.kind = "ValueError"
  /\ last.status = 500

====
